---- MODULE Spec2Model ----
(***************************************************************************)
(* Smart Micro-Pause scheduler (hooks/useSmartMicroPause.ts), the learning *)
(* panel state kept by the host (App.tsx) and the video widget it drives.  *)
(*                                                                         *)
(* Times are in tenths of a second: 8.0 s is 80, 0.3 s is 3, 0.5 s is 5.   *)
(* A React handler together with the render and effects it causes is one   *)
(* step; handlers are operators from the state record to the state record. *)
(* What the widget answers to getCurrentTime() and getPlayerState() is an   *)
(* input of the step that reads it.                                        *)
(***************************************************************************)
EXTENDS Integers, Sequences, FiniteSets, TLC

VARIABLES
    learningPanelState,   \* App: 'preview' | 'cruising' | 'focus' | 'summary'
    currentSession,       \* App: current LearningSession or NoSession
    allSessions,          \* App: sessions of the extracted video
    currentSessionIndex,  \* App
    currentWord,          \* App: word shown by the focus state
    player,               \* useVideoPlayer: TRUE when a widget handle is held
    isWatching,           \* scheduler
    currentWordIndex,     \* scheduler (0-based, as in the source)
    nextWordTimestamp,    \* scheduler: trigger time or Null
    lastCheckedTime,      \* scheduler ref
    intervalRef,          \* scheduler ref: TRUE when it holds an interval id
    liveIntervals,        \* browser: intervals registered by setInterval and not cleared
    resumeTimer,          \* pending setTimeout(300) of continueToNextWord
    corruptedTimer,       \* pending setTimeout(1000) calling onPlayerCorrupted
    playbackTimer,        \* useVideoPlayer: pending auto-stop setTimeout of seekToTimestamp
    pendingReplace,       \* replaceWord requests in flight (closures of handleWordMastered)
    widgetAlive,          \* widget: probes answer with numbers
    videoTime,            \* widget: its video time, where a specification follows it
    vocabularyLoaded,     \* App: vocabulary.length > 0
    masteredWords,        \* App: words marked as mastered for this video
    overlapped,           \* history: words whose replaceWord request was in flight
                          \* together with another one, for this video
    emitted,              \* history: words passed to onWordEncountered in this watching
                          \* run, each with the currentWordIndex it had
    lastEvent,            \* history: the handler or callback that ran last
    sent,                 \* history: the commands that step sent to the widget
    probed,               \* a handle given to the readiness check on its own
    answer,               \* what the readiness check answered for it, or "none"
    auth,                 \* AuthProvider: the state of useReducer(authReducer)
    localStorage,         \* browser: the items auth_tokens and auth_user
    authRequests          \* AuthProvider: fetch calls in flight, with what they captured

vars == << learningPanelState, currentSession, allSessions, currentSessionIndex,
           currentWord, player, isWatching, currentWordIndex, nextWordTimestamp,
           lastCheckedTime, intervalRef, liveIntervals, resumeTimer, corruptedTimer,
           playbackTimer, pendingReplace, widgetAlive, videoTime, vocabularyLoaded, masteredWords, overlapped,
           emitted,
           lastEvent, sent, probed, answer, auth, localStorage, authRequests >>

---------------------------------------------------------------------------
\* Bounds of the model
MaxMastered == 1   \* words marked as mastered per video
MaxInFlight == 1   \* replaceWord requests in flight at once

\* Program constants
MIN_GAP_SECONDS == 80
TRIGGER_BUFFER == 3
MIN_CHECK_DELTA == 5
PLAYING == 1
NOT_PLAYING == 2
Null == -1

Abs(x) == IF x < 0 THEN -x ELSE x

---------------------------------------------------------------------------
\* Vocabulary returned by the extraction service.  start is
\* (startTime ?? timestamp), end is (endTime ?? end_time); Null when absent.
Word(n, s, e) == [word |-> n, start |-> s, end |-> e]

\* data.vocabulary, in the order the service returns it
Vocabulary ==
    << Word("go", 20, 30), Word("unk", Null, 40), Word("run", 50, 60),
       Word("zero", 0, 0), Word("edge", 110, 120), Word("rev", 150, 0),
       Word("far", 200, 210) >>

VocabularyWords == { Vocabulary[i] : i \in 1..Len(Vocabulary) }

NoWord == Word("", Null, Null)

\* Video times the widget is observed at
VideoTimes == { 20, 25, 27, 28, 31, 207 }

NoSession == [present |-> FALSE, focusWords |-> << >>, startTime |-> 0, endTime |-> 0]

---------------------------------------------------------------------------
\* Array.prototype.sort with the comparator (aStart || 0) - (bStart || 0); stable
StartOrZero(w) == IF w.start = Null THEN 0 ELSE w.start

RECURSIVE InsertByStart(_, _)
InsertByStart(w, s) ==
    IF s = << >> THEN << w >>
    ELSE IF StartOrZero(Head(s)) <= StartOrZero(w)
         THEN << Head(s) >> \o InsertByStart(w, Tail(s))
         ELSE << w >> \o s

RECURSIVE SortByStart(_)
SortByStart(s) ==
    IF s = << >> THEN << >>
    ELSE InsertByStart(s[Len(s)], SortByStart(SubSeq(s, 1, Len(s) - 1)))

\* the filter of startWatching / continueToNextWord / checkVideoTime
HasBothTimes(w) == w.start # Null /\ w.end # Null

SortedWords(focusWords) == SortByStart(SelectSeq(focusWords, HasBothTimes))

\* (x || null) on a number
OrNull(x) == IF x = 0 THEN Null ELSE x

---------------------------------------------------------------------------
\* The state as one record, so that handlers are operators on it
St ==
    [ learningPanelState |-> learningPanelState, currentSession |-> currentSession,
      allSessions |-> allSessions, currentSessionIndex |-> currentSessionIndex,
      currentWord |-> currentWord, player |-> player, isWatching |-> isWatching,
      currentWordIndex |-> currentWordIndex, nextWordTimestamp |-> nextWordTimestamp,
      lastCheckedTime |-> lastCheckedTime, intervalRef |-> intervalRef,
      liveIntervals |-> liveIntervals,
      resumeTimer |-> resumeTimer, corruptedTimer |-> corruptedTimer,
      playbackTimer |-> playbackTimer,
      pendingReplace |-> pendingReplace, widgetAlive |-> widgetAlive,
      videoTime |-> videoTime,
      vocabularyLoaded |-> vocabularyLoaded, masteredWords |-> masteredWords,
      overlapped |-> overlapped,
      emitted |-> emitted,
      lastEvent |-> lastEvent, sent |-> sent ]

Becomes(s) ==
    /\ learningPanelState' = s.learningPanelState
    /\ currentSession' = s.currentSession
    /\ allSessions' = s.allSessions
    /\ currentSessionIndex' = s.currentSessionIndex
    /\ currentWord' = s.currentWord
    /\ player' = s.player
    /\ isWatching' = s.isWatching
    /\ currentWordIndex' = s.currentWordIndex
    /\ nextWordTimestamp' = s.nextWordTimestamp
    /\ lastCheckedTime' = s.lastCheckedTime
    /\ intervalRef' = s.intervalRef
    /\ liveIntervals' = s.liveIntervals
    /\ resumeTimer' = s.resumeTimer
    /\ corruptedTimer' = s.corruptedTimer
    /\ playbackTimer' = s.playbackTimer
    /\ pendingReplace' = s.pendingReplace
    /\ widgetAlive' = s.widgetAlive
    /\ videoTime' = s.videoTime
    /\ vocabularyLoaded' = s.vocabularyLoaded
    /\ masteredWords' = s.masteredWords
    /\ overlapped' = s.overlapped
    /\ emitted' = s.emitted
    /\ lastEvent' = s.lastEvent
    /\ sent' = s.sent
    /\ UNCHANGED << probed, answer, auth, localStorage, authRequests >>

---------------------------------------------------------------------------
\* useSmartMicroPause

\* A widget handle: whether it is there at all, the methods it has, and what
\* its two probes answer
Methods == { "seekTo", "getPlayerState", "getCurrentTime", "pauseVideo", "playVideo" }
ProbeAnswers == { "number", "other", "throws" }
Handles ==
    [ present : BOOLEAN, methods : SUBSET Methods,
      playerState : ProbeAnswers, currentTime : ProbeAnswers ]
NoHandle ==
    [ present |-> FALSE, methods |-> {}, playerState |-> "throws", currentTime |-> "throws" ]

\* isPlayerReadyCheck of the scheduler, on a handle
IsReady(h) ==
    /\ h.present
    /\ "getCurrentTime" \in h.methods
    /\ "getPlayerState" \in h.methods
    /\ "pauseVideo" \in h.methods
    /\ "playVideo" \in h.methods
    /\ h.playerState = "number"
    /\ h.currentTime = "number"

\* isPlayerReadyCheck of useVideoPlayer, on a handle
VideoPlayerIsReady(h) ==
    /\ h.present
    /\ "seekTo" \in h.methods
    /\ "getPlayerState" \in h.methods
    /\ "pauseVideo" \in h.methods
    /\ "playVideo" \in h.methods
    /\ h.playerState # "throws"

\* the handle the host holds: a YT.Player has every method; its calls throw
\* once its iframe is gone
HandleOf(s) ==
    [ present |-> s.player, methods |-> Methods,
      playerState |-> IF s.widgetAlive THEN "number" ELSE "throws",
      currentTime |-> IF s.widgetAlive THEN "number" ELSE "throws" ]

IsPlayerReadyCheck(s) == IsReady(HandleOf(s))

\* startWatching without its readiness guard
StartWatchingUnguarded(s) ==
    IF ~s.currentSession.present \/ Len(s.currentSession.focusWords) = 0 THEN s
    ELSE LET sortedWords == SortedWords(s.currentSession.focusWords) IN
         IF Len(sortedWords) = 0 THEN s
         ELSE [ s EXCEPT !.isWatching = TRUE,
                         !.currentWordIndex = 0,
                         !.nextWordTimestamp = OrNull(sortedWords[1].end),
                         !.lastCheckedTime = 0,
                         !.sent = @ \cup { "seekTo", "playVideo" },
                         !.emitted = << >> ]

StartWatching(s) ==
    IF ~s.currentSession.present \/ Len(s.currentSession.focusWords) = 0 THEN s
    ELSE IF ~IsPlayerReadyCheck(s) THEN s
    ELSE LET sortedWords == SortedWords(s.currentSession.focusWords) IN
         IF Len(sortedWords) = 0 THEN s
         ELSE [ s EXCEPT !.isWatching = TRUE,
                         !.currentWordIndex = 0,
                         !.nextWordTimestamp = OrNull(sortedWords[1].end),
                         !.lastCheckedTime = 0,
                         !.sent = @ \cup { "seekTo", "playVideo" },
                         !.emitted = << >> ]

\* stopWatching without setCurrentWordIndex(0)
StopWatchingKeepsIndex(s) ==
    [ s EXCEPT !.isWatching = FALSE,
               !.nextWordTimestamp = Null,
               !.liveIntervals = IF s.intervalRef THEN @ - 1 ELSE @,
               !.intervalRef = FALSE,
               !.emitted = << >> ]

StopWatching(s) ==
    [ s EXCEPT !.isWatching = FALSE,
               !.currentWordIndex = 0,
               !.nextWordTimestamp = Null,
               !.liveIntervals = IF s.intervalRef THEN @ - 1 ELSE @,
               !.intervalRef = FALSE,
               !.emitted = << >> ]

\* the while loop with > in place of >=
RECURSIVE NextIndexStrict(_, _, _)
NextIndexStrict(sortedWords, currentWordEndTime, k) ==
    IF k >= Len(sortedWords) THEN k
    ELSE IF sortedWords[k + 1].start - currentWordEndTime > MIN_GAP_SECONDS THEN k
    ELSE NextIndexStrict(sortedWords, currentWordEndTime, k + 1)

\* no while loop: the word after the current one is always taken
NextIndexNoGap(sortedWords, currentWordEndTime, k) == k

\* the while loop of continueToNextWord: first index k or later whose start is
\* at least MIN_GAP_SECONDS after currentWordEndTime, Len(sortedWords) if none
RECURSIVE NextIndex(_, _, _)
NextIndex(sortedWords, currentWordEndTime, k) ==
    IF k >= Len(sortedWords) THEN k
    ELSE IF sortedWords[k + 1].start - currentWordEndTime >= MIN_GAP_SECONDS THEN k
    ELSE NextIndex(sortedWords, currentWordEndTime, k + 1)

\* continueToNextWord without the isWatching half of its guard
ContinueUnguarded(s) ==
    IF ~s.currentSession.present THEN s
    ELSE LET sortedWords == SortedWords(s.currentSession.focusWords)
             currentWordEndTime ==
                 IF s.currentWordIndex < Len(sortedWords)
                 THEN sortedWords[s.currentWordIndex + 1].end ELSE 0
             nextIndex == NextIndex(sortedWords, currentWordEndTime, s.currentWordIndex + 1)
         IN IF nextIndex < Len(sortedWords)
            THEN [ s EXCEPT !.currentWordIndex = nextIndex,
                            !.nextWordTimestamp = OrNull(sortedWords[nextIndex + 1].end),
                            !.learningPanelState = "cruising",
                            !.resumeTimer = IF IsPlayerReadyCheck(s) THEN "armed" ELSE @ ]
            ELSE [ s EXCEPT !.isWatching = FALSE,
                            !.learningPanelState = "summary" ]

ContinueToNextWord(s) ==
    IF ~s.currentSession.present \/ ~s.isWatching THEN s
    ELSE LET sortedWords == SortedWords(s.currentSession.focusWords)
             currentWordEndTime ==
                 IF s.currentWordIndex < Len(sortedWords)
                 THEN sortedWords[s.currentWordIndex + 1].end ELSE 0
             nextIndex == NextIndex(sortedWords, currentWordEndTime, s.currentWordIndex + 1)
         IN IF nextIndex < Len(sortedWords)
            THEN [ s EXCEPT !.currentWordIndex = nextIndex,
                            !.nextWordTimestamp = OrNull(sortedWords[nextIndex + 1].end),
                            !.learningPanelState = "cruising",
                            !.resumeTimer = IF IsPlayerReadyCheck(s) THEN "armed" ELSE @ ]
            ELSE [ s EXCEPT !.isWatching = FALSE,
                            !.learningPanelState = "summary" ]

\* the interval callback without the 0.5 s guard
CheckVideoTimeNoDedup(s, currentTime, playerState, currentPlayerState) ==
    IF ~IsPlayerReadyCheck(s) THEN s
    ELSE IF playerState # PLAYING THEN s
    ELSE LET t == [ s EXCEPT !.lastCheckedTime = currentTime ]
             sortedWords == SortedWords(s.currentSession.focusWords)
         IN IF currentTime >= s.nextWordTimestamp - TRIGGER_BUFFER
               /\ s.currentWordIndex < Len(sortedWords)
            THEN [ t EXCEPT !.currentWord = sortedWords[s.currentWordIndex + 1],
                            !.learningPanelState = "focus",
                            !.nextWordTimestamp = Null,
                            !.sent = IF currentPlayerState = PLAYING
                                     THEN @ \cup { "pauseVideo" } ELSE @,
                            !.emitted = Append(@, [ word |-> sortedWords[s.currentWordIndex + 1],
                                                    index |-> s.currentWordIndex ]),
                            !.lastEvent = "wordEncountered" ]
            ELSE t

\* the interval callback without the test of the playing state
CheckVideoTimeAnyState(s, currentTime, playerState, currentPlayerState) ==
    IF ~IsPlayerReadyCheck(s) THEN s
    ELSE IF Abs(currentTime - s.lastCheckedTime) < MIN_CHECK_DELTA THEN s
    ELSE LET t == [ s EXCEPT !.lastCheckedTime = currentTime ]
             sortedWords == SortedWords(s.currentSession.focusWords)
         IN IF currentTime >= s.nextWordTimestamp - TRIGGER_BUFFER
               /\ s.currentWordIndex < Len(sortedWords)
            THEN [ t EXCEPT !.currentWord = sortedWords[s.currentWordIndex + 1],
                            !.learningPanelState = "focus",
                            !.nextWordTimestamp = Null,
                            !.sent = IF currentPlayerState = PLAYING
                                     THEN @ \cup { "pauseVideo" } ELSE @,
                            !.emitted = Append(@, [ word |-> sortedWords[s.currentWordIndex + 1],
                                                    index |-> s.currentWordIndex ]),
                            !.lastEvent = "wordEncountered" ]
            ELSE t

\* the interval callback that leaves nextWordTimestamp set when it triggers
CheckVideoTimeKeepsTrigger(s, currentTime, playerState, currentPlayerState) ==
    IF ~IsPlayerReadyCheck(s) THEN s
    ELSE IF playerState # PLAYING THEN s
    ELSE IF Abs(currentTime - s.lastCheckedTime) < MIN_CHECK_DELTA THEN s
    ELSE LET t == [ s EXCEPT !.lastCheckedTime = currentTime ]
             sortedWords == SortedWords(s.currentSession.focusWords)
         IN IF currentTime >= s.nextWordTimestamp - TRIGGER_BUFFER
               /\ s.currentWordIndex < Len(sortedWords)
            THEN [ t EXCEPT !.currentWord = sortedWords[s.currentWordIndex + 1],
                            !.learningPanelState = "focus",
                            !.sent = IF currentPlayerState = PLAYING
                                     THEN @ \cup { "pauseVideo" } ELSE @,
                            !.emitted = Append(@, [ word |-> sortedWords[s.currentWordIndex + 1],
                                                    index |-> s.currentWordIndex ]),
                            !.lastEvent = "wordEncountered" ]
            ELSE t

\* the interval callback that pauses without reading the state again
CheckVideoTimePausesAlways(s, currentTime, playerState, currentPlayerState) ==
    IF ~IsPlayerReadyCheck(s) THEN s
    ELSE IF playerState # PLAYING THEN s
    ELSE IF Abs(currentTime - s.lastCheckedTime) < MIN_CHECK_DELTA THEN s
    ELSE LET t == [ s EXCEPT !.lastCheckedTime = currentTime ]
             sortedWords == SortedWords(s.currentSession.focusWords)
         IN IF currentTime >= s.nextWordTimestamp - TRIGGER_BUFFER
               /\ s.currentWordIndex < Len(sortedWords)
            THEN [ t EXCEPT !.currentWord = sortedWords[s.currentWordIndex + 1],
                            !.learningPanelState = "focus",
                            !.nextWordTimestamp = Null,
                            !.sent = @ \cup { "pauseVideo" },
                            !.emitted = Append(@, [ word |-> sortedWords[s.currentWordIndex + 1],
                                                    index |-> s.currentWordIndex ]),
                            !.lastEvent = "wordEncountered" ]
            ELSE t

\* the interval callback that triggers only within 1.0 s after the trigger time
CheckVideoTimeWindow(s, currentTime, playerState, currentPlayerState) ==
    IF ~IsPlayerReadyCheck(s) THEN s
    ELSE IF playerState # PLAYING THEN s
    ELSE IF Abs(currentTime - s.lastCheckedTime) < MIN_CHECK_DELTA THEN s
    ELSE LET t == [ s EXCEPT !.lastCheckedTime = currentTime ]
             sortedWords == SortedWords(s.currentSession.focusWords)
         IN IF currentTime >= s.nextWordTimestamp - TRIGGER_BUFFER
               /\ currentTime <= s.nextWordTimestamp + 10
               /\ s.currentWordIndex < Len(sortedWords)
            THEN [ t EXCEPT !.currentWord = sortedWords[s.currentWordIndex + 1],
                            !.learningPanelState = "focus",
                            !.nextWordTimestamp = Null,
                            !.sent = IF currentPlayerState = PLAYING
                                     THEN @ \cup { "pauseVideo" } ELSE @,
                            !.emitted = Append(@, [ word |-> sortedWords[s.currentWordIndex + 1],
                                                    index |-> s.currentWordIndex ]),
                            !.lastEvent = "wordEncountered" ]
            ELSE t

\* one run of the interval callback; currentTime and playerState are what the
\* widget answers, currentPlayerState what it answers to the second
\* getPlayerState() of a trigger, just before the pause
CheckVideoTime(s, currentTime, playerState, currentPlayerState) ==
    IF ~IsPlayerReadyCheck(s) THEN s
    ELSE IF playerState # PLAYING THEN s
    ELSE IF Abs(currentTime - s.lastCheckedTime) < MIN_CHECK_DELTA THEN s
    ELSE LET t == [ s EXCEPT !.lastCheckedTime = currentTime ]
             sortedWords == SortedWords(s.currentSession.focusWords)
         IN IF currentTime >= s.nextWordTimestamp - TRIGGER_BUFFER
               /\ s.currentWordIndex < Len(sortedWords)
            THEN [ t EXCEPT !.currentWord = sortedWords[s.currentWordIndex + 1],
                            !.learningPanelState = "focus",
                            !.nextWordTimestamp = Null,
                            !.sent = IF currentPlayerState = PLAYING
                                     THEN @ \cup { "pauseVideo" } ELSE @,
                            !.emitted = Append(@, [ word |-> sortedWords[s.currentWordIndex + 1],
                                                    index |-> s.currentWordIndex ]),
                            !.lastEvent = "wordEncountered" ]
            ELSE t

\* the monitoring effect run without the cleanup of its previous run
MonitoringEffectNoCleanup(s) ==
    IF s.isWatching /\ IsPlayerReadyCheck(s) /\ s.nextWordTimestamp # Null
    THEN [ s EXCEPT !.liveIntervals = @ + 1, !.intervalRef = TRUE ]
    ELSE s

\* the monitoring effect without the nextWordTimestamp part of its guard
MonitoringEffectNoGuard(s) ==
    LET c == [ s EXCEPT !.liveIntervals = IF s.intervalRef THEN @ - 1 ELSE @,
                        !.intervalRef = FALSE ]
    IN IF c.isWatching /\ IsPlayerReadyCheck(c)
       THEN [ c EXCEPT !.liveIntervals = @ + 1, !.intervalRef = TRUE ]
       ELSE c

\* the cleanup the monitoring effect returns: clearInterval of the id in the ref
ClearInterval(s) ==
    [ s EXCEPT !.liveIntervals = IF s.intervalRef THEN @ - 1 ELSE @,
               !.intervalRef = FALSE ]

\* the monitoring effect: the cleanup of its previous run clears the interval,
\* its body registers a new one when the guard passes
MonitoringEffect(s) ==
    LET c == ClearInterval(s)
    IN IF c.isWatching /\ IsPlayerReadyCheck(c) /\ c.nextWordTimestamp # Null
       THEN [ c EXCEPT !.liveIntervals = @ + 1, !.intervalRef = TRUE ]
       ELSE c

\* the auto-start / auto-stop effect; it runs when one of its dependencies changed
AutoEffectDeps(s) ==
    << s.learningPanelState, s.isWatching, s.currentSession, s.player >>

\* the effect without its auto-stop branch
AutoEffectNeverStops(prev, s) ==
    IF AutoEffectDeps(prev) = AutoEffectDeps(s) THEN s
    ELSE IF s.learningPanelState = "cruising" /\ ~s.isWatching /\ s.currentSession.present
         THEN StartWatching(s)
    ELSE s

AutoEffect(prev, s) ==
    IF AutoEffectDeps(prev) = AutoEffectDeps(s) THEN s
    ELSE IF s.learningPanelState = "cruising" /\ ~s.isWatching /\ s.currentSession.present
         THEN StartWatching(s)
    ELSE IF s.learningPanelState \notin {"cruising", "focus"}
         THEN StopWatching(s)
    ELSE s

\* React state: a handler that changes none of it causes no render
Rendered(s) ==
    << s.learningPanelState, s.currentSession, s.allSessions, s.currentSessionIndex,
       s.currentWord, s.player, s.isWatching, s.currentWordIndex, s.nextWordTimestamp,
       s.vocabularyLoaded, s.masteredWords >>

\* render after a handler took prev to s, and the effects (and the render they
\* cause) after it
Render(prev, s) ==
    IF Rendered(prev) = Rendered(s) THEN s
    ELSE LET s1 == AutoEffect(prev, s)
         IN MonitoringEffect(AutoEffect(s, s1))

---------------------------------------------------------------------------
\* useVideoPlayer

\* a timer of continueToNextWord holds the handle it was created with
DropHandle(s) ==
    [ s EXCEPT !.player = FALSE, !.widgetAlive = FALSE,
               !.sent = IF s.player THEN @ \cup { "destroy" } ELSE @,
               !.resumeTimer = IF @ = "armed" THEN "stale" ELSE @,
               !.playbackTimer = FALSE ]

\* stopCurrentPlayback; playerState is what the widget answers to getPlayerState()
StopCurrentPlayback(s, playerState) ==
    [ s EXCEPT !.playbackTimer = FALSE,
               !.sent = IF VideoPlayerIsReady(HandleOf(s)) /\ playerState = PLAYING
                        THEN @ \cup { "pauseVideo" } ELSE @ ]

\* seekToTimestamp: stop, seek and play, and a timer to stop at the end of the item
SeekToTimestamp(s, item, playerState) ==
    IF ~VideoPlayerIsReady(HandleOf(s)) \/ item.start = Null THEN s
    ELSE [ StopCurrentPlayback(s, playerState) EXCEPT
               !.sent = @ \cup { "seekTo", "playVideo" },
               !.playbackTimer = (item.end # Null) ]

\* the body of that timer
PlaybackTimeout(s, playerState) ==
    [ s EXCEPT !.playbackTimer = FALSE,
               !.sent = IF VideoPlayerIsReady(HandleOf(s)) /\ playerState = PLAYING
                        THEN @ \cup { "pauseVideo" } ELSE @ ]

ResetPlayer(s) == DropHandle(s)

---------------------------------------------------------------------------
\* App

\* handleStateChange, the onStateChange prop of the hook and of the panel
HandleStateChange(s, newState) == [ s EXCEPT !.learningPanelState = newState ]

HandleStartWatching(s) ==
    LET t == [ s EXCEPT !.learningPanelState = "cruising" ]
    IN IF s.player THEN StartWatching(t) ELSE t

HandlePracticeComplete(s) ==
    ContinueToNextWord([ s EXCEPT !.currentWord = NoWord ])

HandleNextSession(s) ==
    IF s.currentSessionIndex + 1 < Len(s.allSessions)
    THEN [ s EXCEPT !.currentSessionIndex = @ + 1,
                    !.currentSession = s.allSessions[s.currentSessionIndex + 2],
                    !.learningPanelState = "preview" ]
    ELSE s

HandleReviewSession(s) == [ s EXCEPT !.learningPanelState = "preview" ]

HandleBackToHomepage(s) ==
    [ ResetPlayer(s) EXCEPT !.currentSession = NoSession,
                            !.allSessions = << >>,
                            !.learningPanelState = "preview" ]

HandleWordClick(s, item, playerState) ==
    IF s.learningPanelState \in {"cruising", "preview"}
    THEN SeekToTimestamp([ s EXCEPT !.currentWord = item, !.learningPanelState = "focus" ],
                         item, playerState)
    ELSE s

\* (x ?? fallback) on a time bound
OrElse(x, fallback) == IF x = Null THEN fallback ELSE x

\* the conversion of sessionData.sessions in handleExtractContent
FrontendSession(sessions, index) ==
    LET sortedWords == SortByStart(sessions[index])
        prevWords == IF index = 1 THEN << >> ELSE SortByStart(sessions[index - 1])
        sessionStartTime ==
            IF index = 1 \/ prevWords = << >> THEN 0
            ELSE OrElse(prevWords[Len(prevWords)].end, 0)
    IN [ present |-> TRUE,
         focusWords |-> sortedWords,
         startTime |-> sessionStartTime,
         endTime |-> IF sortedWords = << >> THEN sessionStartTime
                     ELSE OrElse(sortedWords[Len(sortedWords)].end, 0) ]

HandleExtractContent(s, sessions) ==
    LET frontendSessions == [ i \in 1..Len(sessions) |-> FrontendSession(sessions, i) ]
    IN [ s EXCEPT !.vocabularyLoaded = TRUE,
                  !.masteredWords = {},
                  !.overlapped = {},
                  !.allSessions = frontendSessions,
                  !.currentSessionIndex = 0,
                  !.currentSession = frontendSessions[1],
                  !.learningPanelState = "preview" ]

\* handleExtractContent when the session service fails: one session of the
\* first five words of data.vocabulary
FallbackSession ==
    LET sessionWords == SortByStart(SubSeq(Vocabulary, 1, 5))
    IN [ present |-> TRUE,
         focusWords |-> sessionWords,
         startTime |-> 0,
         endTime |-> OrElse(sessionWords[Len(sessionWords)].end, 0) ]

HandleExtractContentFallback(s) ==
    [ s EXCEPT !.vocabularyLoaded = TRUE,
               !.masteredWords = {},
               !.overlapped = {},
               !.currentSession = FallbackSession,
               !.allSessions = << FallbackSession >>,
               !.learningPanelState = "preview" ]

\* handleWordMastered up to its await: the request keeps the session it saw
HandleWordMastered(s, word) ==
    IF ~s.currentSession.present \/ ~s.vocabularyLoaded THEN s
    ELSE [ s EXCEPT !.masteredWords = @ \cup {word},
                    !.overlapped =
                        IF s.pendingReplace = << >> THEN @
                        ELSE @ \cup {word}
                               \cup { s.pendingReplace[k].word : k \in 1..Len(s.pendingReplace) },
                    !.pendingReplace =
                        Append(@, [ session |-> s.currentSession, word |-> word ]) ]

\* the replacement branch without its sort
ReplacementFoundUnsorted(s, req, replacement) ==
    LET words == req.session.focusWords
        replacedWords == [ i \in 1..Len(words) |->
                             IF words[i].word = req.word THEN replacement ELSE words[i] ]
        newEndTime == IF replacedWords = << >> THEN req.session.endTime
                      ELSE OrElse(replacedWords[Len(replacedWords)].end, req.session.endTime)
    IN [ s EXCEPT !.currentSession =
             [ req.session EXCEPT !.focusWords = replacedWords, !.endTime = newEndTime ] ]

\* handleWordMastered after its await, for each answer of the replacement service
ReplacementFound(s, req, replacement) ==
    LET words == req.session.focusWords
        replacedWords == [ i \in 1..Len(words) |->
                             IF words[i].word = req.word THEN replacement ELSE words[i] ]
        sortedWords == SortByStart(replacedWords)
        newEndTime == IF sortedWords = << >> THEN req.session.endTime
                      ELSE OrElse(sortedWords[Len(sortedWords)].end, req.session.endTime)
    IN [ s EXCEPT !.currentSession =
             [ req.session EXCEPT !.focusWords = sortedWords, !.endTime = newEndTime ] ]

WithoutWord(words, word) == SelectSeq(words, LAMBDA w : w.word # word)

ReplacementNotFound(s, req) ==
    LET filteredWords == WithoutWord(req.session.focusWords, req.word)
        newEndTime == IF filteredWords = << >> THEN req.session.startTime
                      ELSE OrElse(filteredWords[Len(filteredWords)].end, req.session.startTime)
    IN [ s EXCEPT !.currentSession =
             [ req.session EXCEPT !.focusWords = filteredWords, !.endTime = newEndTime ] ]

ReplacementFailed(s, req) ==
    [ s EXCEPT !.currentSession =
          [ req.session EXCEPT !.focusWords = WithoutWord(req.session.focusWords, req.word) ] ]

HandlePlayerReady(s) ==
    [ s EXCEPT !.player = TRUE, !.widgetAlive = TRUE ]

\* the setTimeout(300) body of continueToNextWord
ResumePlayback(s) ==
    IF s.resumeTimer = "armed" /\ IsPlayerReadyCheck(s)
    THEN [ s EXCEPT !.resumeTimer = "none", !.sent = @ \cup { "playVideo" } ]
    ELSE [ s EXCEPT !.resumeTimer = "none", !.corruptedTimer = TRUE ]

---------------------------------------------------------------------------
\* what the extraction service can answer

ByName(n) == CHOOSE w \in VocabularyWords : w.word = n

\* sessionData.sessions for the videos of the model, as lists of focus words
BackendSessions ==
    { << << ByName("go"), ByName("run") >> >>,
      << << ByName("run"), ByName("unk"), ByName("edge"), ByName("go") >> >>,
      << << ByName("edge"), ByName("zero") >> >>,
      << << ByName("go"), ByName("rev") >> >>,
      << << >> >>,
      << << ByName("unk") >> >>,
      << << ByName("go"), ByName("far") >>, << ByName("run") >> >> }

\* the words the replacement service answers with
Replacements == { ByName("zero") }

\* the items of the legacy vocabulary list the user clicks
ClickedItems == { ByName("go") }

\* the words the user marks as mastered in the preview
MasteredChoices == { ByName("far") }

WordsOf(session) == { session.focusWords[i] : i \in 1..Len(session.focusWords) }

---------------------------------------------------------------------------
\* AuthContext: the reducer, the local storage helpers and the mount effect.
\* null is the string "null"; a removed auth_tokens item is NoTokens.
initialState ==
    [ user |-> "null", accessToken |-> "null", refreshToken |-> "null",
      isLoading |-> TRUE, isAuthenticated |-> FALSE ]

authReducer(state, action) ==
    CASE action.type = "LOGIN_SUCCESS" ->
             [ state EXCEPT !.user = action.payload.user,
                            !.accessToken = action.payload.accessToken,
                            !.refreshToken = action.payload.refreshToken,
                            !.isAuthenticated = TRUE,
                            !.isLoading = FALSE ]
      [] action.type = "LOGIN_FAILURE" -> [ initialState EXCEPT !.isLoading = FALSE ]
      [] action.type = "LOGOUT" -> [ initialState EXCEPT !.isLoading = FALSE ]
      [] action.type = "SET_LOADING" -> [ state EXCEPT !.isLoading = action.payload ]
      [] action.type = "UPDATE_USER" -> [ state EXCEPT !.user = action.payload ]
      [] action.type = "REFRESH_TOKEN" ->
             [ state EXCEPT !.accessToken = action.payload.accessToken,
                            !.refreshToken = action.payload.refreshToken ]
      [] OTHER -> state

NoTokens == [ accessToken |-> "null", refreshToken |-> "null" ]

saveAuthData(user, accessToken, refreshToken) ==
    [ auth_tokens |-> [ accessToken |-> accessToken, refreshToken |-> refreshToken ],
      auth_user |-> user ]

clearAuthData == [ auth_tokens |-> NoTokens, auth_user |-> "null" ]

\* the effect run at mount
loadStoredAuth(storage) ==
    IF storage.auth_tokens # NoTokens /\ storage.auth_user # "null"
    THEN authReducer(initialState,
                     [ type |-> "LOGIN_SUCCESS",
                       payload |-> [ user |-> storage.auth_user,
                                     accessToken |-> storage.auth_tokens.accessToken,
                                     refreshToken |-> storage.auth_tokens.refreshToken ] ])
    ELSE authReducer(initialState, [ type |-> "SET_LOADING", payload |-> FALSE ])

\* the provider mounted in a browser without stored authentication
InitAuth ==
    /\ localStorage = clearAuthData
    /\ auth = loadStoredAuth(clearAuthData)
    /\ authRequests = << >>

---------------------------------------------------------------------------
InitProgram ==
    /\ learningPanelState = "preview"
    /\ currentSession = NoSession
    /\ allSessions = << >>
    /\ currentSessionIndex = 0
    /\ currentWord = NoWord
    /\ player = FALSE
    /\ isWatching = FALSE
    /\ currentWordIndex = 0
    /\ nextWordTimestamp = Null
    /\ lastCheckedTime = 0
    /\ intervalRef = FALSE
    /\ liveIntervals = 0
    /\ resumeTimer = "none"
    /\ corruptedTimer = FALSE
    /\ playbackTimer = FALSE
    /\ pendingReplace = << >>
    /\ widgetAlive = FALSE
    /\ videoTime = 0
    /\ vocabularyLoaded = FALSE
    /\ masteredWords = {}
    /\ overlapped = {}
    /\ emitted = << >>
    /\ lastEvent = "mount"
    /\ sent = {}

Init ==
    /\ InitProgram
    /\ probed = NoHandle
    /\ answer = "none"
    /\ InitAuth

\* a handler h run from the current state, with the render it causes
Event(name) == [ St EXCEPT !.lastEvent = name, !.sent = {} ]
Does(s) == Becomes(Render(St, s))

ExtractContent ==
    /\ pendingReplace = << >>
    /\ \E sessions \in BackendSessions :
          Does(HandleExtractContent(Event("host"), sessions))

ExtractContentFallback ==
    /\ pendingReplace = << >>
    /\ Does(HandleExtractContentFallback(Event("host")))

ClickStartWatching ==
    /\ learningPanelState = "preview"
    /\ currentSession.present
    /\ Does(HandleStartWatching(Event("startWatching")))

ClickPracticeComplete ==
    /\ learningPanelState = "focus"
    /\ currentWord # NoWord
    /\ Does(HandlePracticeComplete(Event("practiceComplete")))

ClickNextSession ==
    /\ learningPanelState = "summary"
    /\ currentSession.present
    /\ Does(HandleNextSession(Event("host")))

ClickReviewSession ==
    /\ learningPanelState = "summary"
    /\ currentSession.present
    /\ Does(HandleReviewSession(Event("stateChange")))

ClickBackToHomepage ==
    /\ pendingReplace = << >>
    /\ Does(HandleBackToHomepage(Event("host")))

ClickWordAt(item, playerState) ==
    /\ vocabularyLoaded
    /\ learningPanelState \in {"cruising", "preview"}
    /\ Does(HandleWordClick(Event("host"), item, playerState))

ClickWord ==
    \E item \in ClickedItems, playerState \in {PLAYING, NOT_PLAYING} :
        ClickWordAt(item, playerState)

ClickWordMastered ==
    /\ learningPanelState = "preview"
    /\ currentSession.present
    /\ Len(pendingReplace) < MaxInFlight
    /\ Cardinality(masteredWords) < MaxMastered
    /\ \E w \in WordsOf(currentSession) \cap MasteredChoices :
          Does(HandleWordMastered(Event("host"), w.word))

ReplaceWordFound ==
    /\ pendingReplace # << >>
    /\ \E k \in 1..Len(pendingReplace) :
          \E replacement \in Replacements \ WordsOf(pendingReplace[k].session) :
            Does(ReplacementFound(
                   [ Event("host") EXCEPT !.pendingReplace =
                         SubSeq(@, 1, k - 1) \o SubSeq(@, k + 1, Len(@)) ],
                   pendingReplace[k], replacement))

ReplaceWordNotFound ==
    /\ pendingReplace # << >>
    /\ \E k \in 1..Len(pendingReplace) :
          Does(ReplacementNotFound(
                 [ Event("host") EXCEPT !.pendingReplace =
                       SubSeq(@, 1, k - 1) \o SubSeq(@, k + 1, Len(@)) ],
                 pendingReplace[k]))

ReplaceWordFails ==
    /\ pendingReplace # << >>
    /\ \E k \in 1..Len(pendingReplace) :
          Does(ReplacementFailed(
                 [ Event("host") EXCEPT !.pendingReplace =
                       SubSeq(@, 1, k - 1) \o SubSeq(@, k + 1, Len(@)) ],
                 pendingReplace[k]))

PlayerReady ==
    /\ ~player
    /\ Does(HandlePlayerReady(Event("host")))

TickRead(currentTime, playerState, currentPlayerState) ==
    /\ liveIntervals > 0
    /\ Does(CheckVideoTime(Event("tick"), currentTime, playerState, currentPlayerState))

\* the second read is made by a tick that found the widget playing
TickAt(currentTime, playerState) ==
    \E currentPlayerState \in IF playerState = PLAYING THEN { PLAYING, NOT_PLAYING }
                                                        ELSE { NOT_PLAYING } :
        TickRead(currentTime, playerState, currentPlayerState)

Tick ==
    \E currentTime \in VideoTimes, playerState \in {PLAYING, NOT_PLAYING} :
        TickAt(currentTime, playerState)

ResumeTimerFires ==
    /\ resumeTimer # "none"
    /\ Does(ResumePlayback(Event("timer")))

PlaybackTimerFiresAt(playerState) ==
    /\ playbackTimer
    /\ Does(PlaybackTimeout(Event("timer"), playerState))

PlaybackTimerFires ==
    \E playerState \in {PLAYING, NOT_PLAYING} : PlaybackTimerFiresAt(playerState)

CorruptedTimerFires ==
    /\ corruptedTimer
    /\ Does(ResetPlayer([ Event("timer") EXCEPT !.corruptedTimer = FALSE ]))

\* the iframe of the widget is torn down
WidgetBreaks ==
    /\ player /\ widgetAlive
    /\ Becomes([ St EXCEPT !.widgetAlive = FALSE ])

Next ==
    \/ ExtractContent
    \/ ExtractContentFallback
    \/ ClickStartWatching
    \/ ClickPracticeComplete
    \/ ClickNextSession
    \/ ClickReviewSession
    \/ ClickBackToHomepage
    \/ ClickWord
    \/ ClickWordMastered
    \/ ReplaceWordFound
    \/ ReplaceWordNotFound
    \/ ReplaceWordFails
    \/ PlayerReady
    \/ Tick
    \/ ResumeTimerFires
    \/ PlaybackTimerFires
    \/ CorruptedTimerFires
    \/ WidgetBreaks

Spec == Init /\ [][Next]_vars

---------------------------------------------------------------------------
\* The scheduler with a widget that plays forward: the widget reports the
\* playing state, its video time only grows while the scheduler watches, and
\* the interval keeps firing.  The session and the player are not replaced
\* while the scheduler watches.
MaxVideoTime == 150
TickSteps == { 4, 10 }       \* video time between two ticks: 0.4 s or 1.0 s
StartTimes == { 0, 100 }     \* where the video is when watching starts
MaxTicksToAccept == 3        \* ticks until one is 0.5 s from lastCheckedTime

LastFreeTime == MaxVideoTime - MaxTicksToAccept * 10

\* the sessions whose trigger times lie within MaxVideoTime
PlayingSessions ==
    { << << ByName("go"), ByName("run") >> >>,
      << << ByName("run"), ByName("unk"), ByName("edge"), ByName("go") >> >> }

PlayingExtractContent ==
    /\ ~isWatching
    /\ \E sessions \in PlayingSessions :
          Does(HandleExtractContent(Event("host"), sessions))

PlayingPlayerReady == ~isWatching /\ PlayerReady

\* the start button; the video is at v when the interval starts
PlayingStartWatching ==
    /\ learningPanelState = "preview"
    /\ currentSession.present
    /\ \E v \in StartTimes :
          Does(HandleStartWatching([ Event("startWatching") EXCEPT !.videoTime = v ]))

\* the video plays on while the learner practises
TimePasses ==
    /\ learningPanelState = "focus"
    /\ \E d \in TickSteps :
          /\ videoTime + d <= LastFreeTime
          /\ Becomes([ St EXCEPT !.videoTime = @ + d ])

\* the interval fires, the widget playing and d further
ForwardTick ==
    /\ liveIntervals > 0
    /\ \E d \in TickSteps, currentPlayerState \in { PLAYING, NOT_PLAYING } :
          /\ videoTime + d <= MaxVideoTime
          /\ Does(CheckVideoTime([ Event("tick") EXCEPT !.videoTime = @ + d ],
                                 videoTime + d, PLAYING, currentPlayerState))

PlayingNext ==
    \/ PlayingExtractContent
    \/ PlayingPlayerReady
    \/ PlayingStartWatching
    \/ ClickPracticeComplete
    \/ ClickReviewSession
    \/ ResumeTimerFires
    \/ TimePasses
    \/ ForwardTick

\* ForwardTick can fire: an interval is registered and the video has not ended
ForwardTickEnabled ==
    liveIntervals > 0 /\ \E d \in TickSteps : videoTime + d <= MaxVideoTime

\* setInterval keeps calling the callback until clearInterval: weak fairness
\* of ForwardTick, WF_vars(ForwardTick), with its enabling condition spelled out
TicksContinue == []<>(~ForwardTickEnabled) \/ []<><<ForwardTick>>_vars

PlayingSpec == Init /\ [][PlayingNext]_vars /\ TicksContinue

---------------------------------------------------------------------------
\* Word mastery with overlapping requests: the user marks words of the preview
\* as mastered without waiting for replaceWord to answer, then watches.
MaxOverlap == 2   \* replaceWord requests in flight at once

MasterySessions ==
    { << << ByName("go"), ByName("far") >> >>,
      << << ByName("go"), ByName("run") >> >> }

MasteryExtractContent ==
    /\ pendingReplace = << >>
    /\ ~isWatching
    /\ \E sessions \in MasterySessions :
          Does(HandleExtractContent(Event("host"), sessions))

\* the mastered button of a word of the preview that is not marked yet
MasteryClickWordMastered ==
    /\ learningPanelState = "preview"
    /\ currentSession.present
    /\ Len(pendingReplace) < MaxOverlap
    /\ \E w \in WordsOf(currentSession) :
          /\ w.word \notin masteredWords
          /\ Does(HandleWordMastered(Event("host"), w.word))

MasteryNext ==
    \/ MasteryExtractContent
    \/ MasteryClickWordMastered
    \/ ReplaceWordFound
    \/ ReplaceWordNotFound
    \/ ReplaceWordFails
    \/ ClickStartWatching
    \/ PlayerReady
    \/ Tick

MasterySpec == Init /\ [][MasteryNext]_vars

---------------------------------------------------------------------------
\* The readiness check on its own: it is given a handle and answers

programVars ==
    << learningPanelState, currentSession, allSessions, currentSessionIndex,
       currentWord, player, isWatching, currentWordIndex, nextWordTimestamp,
       lastCheckedTime, intervalRef, liveIntervals, resumeTimer, corruptedTimer,
       playbackTimer, pendingReplace, widgetAlive, videoTime, vocabularyLoaded, masteredWords, overlapped,
           emitted,
       lastEvent, sent >>

ReadinessInit ==
    /\ InitProgram
    /\ probed \in Handles
    /\ answer = "none"
    /\ InitAuth

ProbeReadiness ==
    /\ answer = "none"
    /\ answer' = IF IsReady(probed) THEN "ready" ELSE "notReady"
    /\ UNCHANGED << programVars, probed, auth, localStorage, authRequests >>

ReadinessNext == ProbeReadiness

ReadinessSpec == ReadinessInit /\ [][ReadinessNext]_vars

---------------------------------------------------------------------------
\* The authentication provider on its own: its functions are called while
\* earlier calls still wait for the server.
MaxAuthRequests == 2   \* fetch calls in flight at once

\* what the server answers to login/register, to PUT /api/auth/me and to refresh
LoginAnswer == [ user |-> "user", access_token |-> "access", refresh_token |-> "refresh" ]
UpdatedUser == "updatedUser"
RefreshAnswer == [ access_token |-> "access2", refresh_token |-> "refresh2" ]

\* the local storage found at mount
StoredAtMount ==
    { clearAuthData,
      saveAuthData(LoginAnswer.user, LoginAnswer.access_token, LoginAnswer.refresh_token) }

AuthInit ==
    /\ InitProgram
    /\ probed = NoHandle
    /\ answer = "none"
    /\ localStorage \in StoredAtMount
    /\ auth = loadStoredAuth(localStorage)
    /\ authRequests = << >>

\* a call reaches its await fetch: the closure keeps the state it was made in
Request(kind) ==
    [ kind |-> kind, accessToken |-> auth.accessToken, refreshToken |-> auth.refreshToken ]

Awaits(kind) ==
    /\ Len(authRequests) < MaxAuthRequests
    /\ authRequests' = Append(authRequests, Request(kind))

Without(k) == SubSeq(authRequests, 1, k - 1) \o SubSeq(authRequests, k + 1, Len(authRequests))

SchedulerIdle == UNCHANGED << programVars, probed, answer >>

Login ==
    /\ Awaits("login")
    /\ auth' = authReducer(auth, [ type |-> "SET_LOADING", payload |-> TRUE ])
    /\ UNCHANGED localStorage
    /\ SchedulerIdle

Register ==
    /\ Awaits("register")
    /\ auth' = authReducer(auth, [ type |-> "SET_LOADING", payload |-> TRUE ])
    /\ UNCHANGED localStorage
    /\ SchedulerIdle

\* login and register after their fetch
LoginResolves ==
    /\ \E k \in 1..Len(authRequests), ok \in BOOLEAN :
          /\ authRequests[k].kind \in { "login", "register" }
          /\ authRequests' = Without(k)
          /\ IF ok
             THEN /\ localStorage' = saveAuthData(LoginAnswer.user, LoginAnswer.access_token,
                                                  LoginAnswer.refresh_token)
                  /\ auth' = authReducer(auth,
                                [ type |-> "LOGIN_SUCCESS",
                                  payload |-> [ user |-> LoginAnswer.user,
                                                accessToken |-> LoginAnswer.access_token,
                                                refreshToken |-> LoginAnswer.refresh_token ] ])
             ELSE /\ auth' = authReducer(auth, [ type |-> "LOGIN_FAILURE" ])
                  /\ UNCHANGED localStorage
    /\ SchedulerIdle

\* logout(): it awaits the server only when it holds an access token
Logout ==
    /\ IF auth.accessToken # "null"
       THEN /\ Awaits("logout")
            /\ UNCHANGED << auth, localStorage >>
       ELSE /\ localStorage' = clearAuthData
            /\ auth' = authReducer(auth, [ type |-> "LOGOUT" ])
            /\ UNCHANGED authRequests
    /\ SchedulerIdle

\* the finally block of logout, whatever the server answered
LogoutResolves ==
    /\ \E k \in 1..Len(authRequests) :
          /\ authRequests[k].kind = "logout"
          /\ authRequests' = Without(k)
          /\ localStorage' = clearAuthData
          /\ auth' = authReducer(auth, [ type |-> "LOGOUT" ])
    /\ SchedulerIdle

UpdateProfile ==
    /\ auth.accessToken # "null"
    /\ Awaits("updateProfile")
    /\ UNCHANGED << auth, localStorage >>
    /\ SchedulerIdle

UpdateProfileResolves ==
    /\ \E k \in 1..Len(authRequests), ok \in BOOLEAN :
          /\ authRequests[k].kind = "updateProfile"
          /\ authRequests' = Without(k)
          /\ IF ok
             THEN /\ localStorage' = [ localStorage EXCEPT !.auth_user = UpdatedUser ]
                  /\ auth' = authReducer(auth, [ type |-> "UPDATE_USER", payload |-> UpdatedUser ])
             ELSE UNCHANGED << auth, localStorage >>
    /\ SchedulerIdle

RefreshAccessToken ==
    /\ auth.refreshToken # "null"
    /\ Awaits("refresh")
    /\ UNCHANGED << auth, localStorage >>
    /\ SchedulerIdle

\* refreshAccessToken after its fetch; a refused refresh calls the logout of
\* the render the call was made in
RefreshResolves ==
    /\ \E k \in 1..Len(authRequests), ok \in BOOLEAN :
          /\ authRequests[k].kind = "refresh"
          /\ IF ok
             THEN /\ authRequests' = Without(k)
                  /\ localStorage' =
                        IF localStorage.auth_user # "null"
                        THEN saveAuthData(localStorage.auth_user, RefreshAnswer.access_token,
                                          RefreshAnswer.refresh_token)
                        ELSE localStorage
                  /\ auth' = authReducer(auth,
                                [ type |-> "REFRESH_TOKEN",
                                  payload |-> [ accessToken |-> RefreshAnswer.access_token,
                                                refreshToken |-> RefreshAnswer.refresh_token ] ])
             ELSE IF authRequests[k].accessToken # "null"
             THEN /\ authRequests' = Append(Without(k), [ authRequests[k] EXCEPT !.kind = "logout" ])
                  /\ UNCHANGED << auth, localStorage >>
             ELSE /\ authRequests' = Without(k)
                  /\ localStorage' = clearAuthData
                  /\ auth' = authReducer(auth, [ type |-> "LOGOUT" ])
    /\ SchedulerIdle

AuthNext ==
    \/ Login
    \/ Register
    \/ LoginResolves
    \/ Logout
    \/ LogoutResolves
    \/ UpdateProfile
    \/ UpdateProfileResolves
    \/ RefreshAccessToken
    \/ RefreshResolves

AuthSpec == AuthInit /\ [][AuthNext]_vars

---------------------------------------------------------------------------
\* Vocabulary of the claims

Names(words) == [ i \in 1..Len(words) |-> words[i].word ]

\* the eligible list of the current session
Eligible == SortedWords(currentSession.focusWords)

\* the indices after i whose word starts at least 8.0 s after word i ends
GapCandidates(words, i) ==
    { j \in (i + 1)..(Len(words) - 1) :
        words[j + 1].start - words[i + 1].end >= MIN_GAP_SECONDS }

Least(S) == CHOOSE x \in S : \A y \in S : x <= y

\* continueToNextWord() is called (by practice completion) and passes its guard
ContinueCalled == ClickPracticeComplete /\ isWatching /\ currentSession.present

\* a tick passes onWordEncountered a word
WordEncountered == lastEvent' = "wordEncountered" /\ Tick

---------------------------------------------------------------------------
\* C1: continueToNextWord() called while watching at index i moves
\* currentWordIndex to the smallest j > i whose word starts at least 8.0 s
\* after word i ends, and to summary when there is no such j.
C1_ContinueLandsOnFirstGap ==
    [][ ContinueCalled =>
          LET J == GapCandidates(Eligible, currentWordIndex)
          IN IF J # {} THEN currentWordIndex' = Least(J)
             ELSE learningPanelState' = "summary" ]_vars

C1_Witness ==
    /\ lastEvent = "practiceComplete"
    /\ learningPanelState = "cruising"
    /\ Names(Eligible) = << "go", "run", "edge" >>
    /\ currentWordIndex = 2

\* C2: startWatching() with a ready player and an eligible word leaves
\* isWatching = true, currentWordIndex = 0 and nextWordTimestamp = the endTime
\* of the first eligible word, whatever that endTime is.
C2_StartArmsFirstWord ==
    [][ ( /\ ClickStartWatching
          /\ IsPlayerReadyCheck(St)
          /\ Eligible # << >> )
        => /\ isWatching'
           /\ currentWordIndex' = 0
           /\ nextWordTimestamp' = Eligible[1].end ]_vars

\* C3 (as stated): while the widget reports playing, the first tick whose
\* currentTime is at least T - 0.3 fires the word-encountered event for the
\* target word.
C3_FirstTickAtTargetFires ==
    [][ \A t \in VideoTimes :
          ( /\ TickAt(t, PLAYING)
            /\ IsPlayerReadyCheck(St)
            /\ currentWordIndex < Len(Eligible)
            /\ t >= nextWordTimestamp - TRIGGER_BUFFER )
          => lastEvent' = "wordEncountered" ]_vars

\* C3 (amended): a tick that reads the playing state fires the event exactly
\* when its currentTime is at least T - 0.3, it is at least 0.5 s away from the
\* last accepted tick and currentWordIndex points into the eligible list; the
\* firing tick clears T, so that no later tick fires for the same T.
C3_FirstAcceptedTickFiresOnce ==
    [][ /\ \A t \in VideoTimes :
             TickAt(t, PLAYING) =>
               ( lastEvent' = "wordEncountered"
                 <=> ( /\ IsPlayerReadyCheck(St)
                       /\ Abs(t - lastCheckedTime) >= MIN_CHECK_DELTA
                       /\ t >= nextWordTimestamp - TRIGGER_BUFFER
                       /\ currentWordIndex < Len(Eligible) ) )
        /\ WordEncountered =>
             /\ nextWordTimestamp # Null
             /\ nextWordTimestamp' = Null
             /\ ~intervalRef' ]_vars

C3_Witness ==
    /\ lastEvent = "wordEncountered"
    /\ learningPanelState = "focus"
    /\ currentWord = ByName("go")
    /\ lastCheckedTime = ByName("go").end - TRIGGER_BUFFER
    /\ nextWordTimestamp = Null

\* C4: stopWatching() from any scheduler state leaves isWatching = false,
\* currentWordIndex = 0, nextWordTimestamp = null and no interval, and a second
\* call changes nothing.
C4_StopWatchingIdempotent ==
    LET once == StopWatching(St)
        twice == StopWatching(once)
    IN /\ ~once.isWatching
       /\ once.currentWordIndex = 0
       /\ once.nextWordTimestamp = Null
       /\ ~once.intervalRef
       /\ twice = once

C4_Witness ==
    /\ isWatching
    /\ currentWordIndex > 0
    /\ nextWordTimestamp # Null
    /\ intervalRef

HostReset == ExtractContent \/ ExtractContentFallback \/ ClickBackToHomepage

C6_EachWordOnceInOrder ==
    \A a, b \in 1..Len(emitted) :
        a < b => /\ emitted[a].word.word # emitted[b].word.word
                 /\ emitted[a].index < emitted[b].index

\* C7: when continueToNextWord() finds no later word at least 8.0 s away the
\* run ends: isWatching becomes false and the panel goes straight to summary;
\* no word-encountered event fires while not watching.
C7_NoCandidateCompletes ==
    [][ /\ (ContinueCalled /\ GapCandidates(Eligible, currentWordIndex) = {})
             => /\ ~isWatching'
                /\ learningPanelState' = "summary"
                /\ nextWordTimestamp' = Null
        /\ WordEncountered => isWatching
        /\ ~isWatching' => ~intervalRef' ]_vars

C7_Witness ==
    /\ lastEvent = "practiceComplete"
    /\ learningPanelState = "summary"
    /\ ~isWatching
    /\ Names(Eligible) = << "go", "run" >>

\* C8: when continueToNextWord() finds a candidate j it sets currentWordIndex
\* to j, nextWordTimestamp to the endTime of word j and the panel to cruising.
C8_CandidateIsArmed ==
    [][ (ContinueCalled /\ GapCandidates(Eligible, currentWordIndex) # {})
          => LET j == Least(GapCandidates(Eligible, currentWordIndex))
             IN /\ currentWordIndex' = j
                /\ nextWordTimestamp' = Eligible[j + 1].end
                /\ learningPanelState' = "cruising" ]_vars

\* C9: the word-encountered event for a word w never fires on a tick whose
\* currentTime is below w.endTime - 0.3.
C9_NeverBeforeSentenceEnd ==
    lastEvent = "wordEncountered" =>
        lastCheckedTime >= currentWord.end - TRIGGER_BUFFER

\* C10: two words triggered one after the other in a watching run are at least
\* 8.0 s apart: the later one starts at least 8.0 s after the earlier one ends.
C10_MinimumGapBetweenTriggers ==
    \A a \in 1..(Len(emitted) - 1) :
        emitted[a + 1].word.start - emitted[a].word.end >= MIN_GAP_SECONDS

\* C11: startWatching() that fails (no session, no word with both time
\* bounds, or a player that fails the readiness check) leaves isWatching,
\* currentWordIndex and nextWordTimestamp as they were and sends no command
\* to the widget.
StartFails(s) ==
    \/ ~s.currentSession.present
    \/ SortedWords(s.currentSession.focusWords) = << >>
    \/ ~IsPlayerReadyCheck(s)

\* startWatching() is called by the start button, and by the auto-start effect
\* when a player arrives while the panel is cruising
StartCalled ==
    \/ ClickStartWatching
    \/ PlayerReady /\ learningPanelState = "cruising" /\ ~isWatching
                   /\ currentSession.present

C11_FailedStartIsNoOp ==
    [][ (StartCalled /\ StartFails(St'))
          => /\ UNCHANGED << isWatching, currentWordIndex, nextWordTimestamp >>
             /\ sent' = {} ]_vars

C11_Witness ==
    /\ lastEvent = "startWatching"
    /\ learningPanelState = "cruising"
    /\ currentSession.present
    /\ currentSession.focusWords # << >>
    /\ Eligible = << >>
    /\ player /\ widgetAlive
    /\ ~isWatching
    /\ sent = {}

\* C13: the readiness check answers true exactly for a handle that is there,
\* has all five methods seekTo, getPlayerState, getCurrentTime, pauseVideo and
\* playVideo, and whose two probes answer numbers.
C13_ReadyIffFiveMethodsAndNumbers ==
    answer # "none" =>
        ( answer = "ready"
          <=> ( /\ probed.present
                /\ probed.methods = Methods
                /\ probed.playerState = "number"
                /\ probed.currentTime = "number" ) )

\* C12: a word that lacks a numeric startTime or endTime, or whose endTime is
\* before its startTime, is never the word at currentWordIndex of a watching
\* scheduler.
WellTimed(w) == w.start # Null /\ w.end # Null /\ w.start <= w.end

C12_OnlyWellTimedWordsScheduled ==
    (isWatching /\ currentWordIndex < Len(Eligible))
        => WellTimed(Eligible[currentWordIndex + 1])

\* C14: at most one polling interval is registered at any time, the one whose
\* id the scheduler holds.
C14_AtMostOneInterval ==
    liveIntervals = IF intervalRef THEN 1 ELSE 0

C14_Witness ==
    /\ lastEvent = "practiceComplete"
    /\ currentWordIndex > 0
    /\ intervalRef
    /\ liveIntervals = 1

\* C15: once watching has stopped, no timer started by continueToNextWord
\* sends a command to the widget or invokes onPlayerCorrupted.
C15_NoTimerAfterStop ==
    [][ /\ (ResumeTimerFires /\ ~isWatching) => (sent' = {} /\ ~corruptedTimer')
        /\ CorruptedTimerFires => isWatching ]_vars

\* C16: when a widget call throws during a polling tick the failure is
\* signalled to the host through onPlayerCorrupted.
C16_ThrowingTickIsSignalled ==
    [][ (Tick /\ HandleOf(St).playerState = "throws") => corruptedTimer' ]_vars

---------------------------------------------------------------------------
\* What the learner can do in the learning panel: the callbacks the panel hands
\* to the component of its current state, each with the render it causes.  The
\* cruising component is handed none.
After(s, name) == [ s EXCEPT !.lastEvent = name, !.sent = {} ]

PanelActions(s) ==
    LET preview ==
            IF s.learningPanelState = "preview" /\ s.currentSession.present
            THEN { Render(s, HandleStartWatching(After(s, "startWatching"))) }
                 \cup { Render(s, HandleWordMastered(After(s, "host"), w.word)) :
                          w \in { v \in WordsOf(s.currentSession) \cap MasteredChoices :
                                    /\ Len(s.pendingReplace) < MaxInFlight
                                    /\ Cardinality(s.masteredWords) < MaxMastered } }
            ELSE {}
        focus ==
            IF s.learningPanelState = "focus" /\ s.currentWord # NoWord
            THEN { Render(s, HandlePracticeComplete(After(s, "practiceComplete"))) }
            ELSE {}
        summary ==
            IF s.learningPanelState = "summary" /\ s.currentSession.present
            THEN { Render(s, HandleNextSession(After(s, "host"))),
                   Render(s, HandleReviewSession(After(s, "stateChange"))) }
            ELSE {}
    IN preview \cup focus \cup summary

\* the states the learner can bring the program to by panel actions alone
RECURSIVE PanelReach(_)
PanelReach(S) ==
    LET T == S \cup UNION { PanelActions(t) : t \in S }
    IN IF T = S THEN S ELSE PanelReach(T)

CanReachSummary(s) ==
    \E t \in PanelReach({ s }) : t.learningPanelState = "summary"

\* the start button was clicked for the session on show
AfterStart ==
    \/ learningPanelState = "cruising"
    \/ learningPanelState = "focus" /\ isWatching

\* C17: in every state after the start button was clicked in which the player
\* fails the readiness check, some sequence of actions of the learner in the
\* learning panel leads to the summary.
C17_UnusablePlayerNeverStuck ==
    (AfterStart /\ ~IsPlayerReadyCheck(St)) => CanReachSummary(St)

\* C18: the focus words of the current session are in ascending order of
\* their start time (startTime ?? timestamp, a word without one counting as 0),
\* however the host built or rebuilt the session: extraction, fallback
\* session, next session, replacement of a mastered word, removal of it.
SortedByStart(words) ==
    \A i \in 1..Len(words) : \A j \in i..Len(words) :
        StartOrZero(words[i]) <= StartOrZero(words[j])

C18_FocusWordsSortedByStart ==
    currentSession.present => SortedByStart(currentSession.focusWords)

\* a mastered last word replaced by a word that starts before the others
C18_Witness ==
    /\ lastEvent = "host"
    /\ masteredWords = { "far" }
    /\ pendingReplace = << >>
    /\ currentSession.present
    /\ Names(currentSession.focusWords) = << "zero", "go" >>

\* C19: the end time of the current session is the largest endTime of its
\* focus words, also after a mastered word was replaced or removed.  Stated
\* for sessions that have words, all of them with both bounds in order.
MaxEnd(words) ==
    CHOOSE e \in { words[i].end : i \in 1..Len(words) } :
        \A i \in 1..Len(words) : words[i].end <= e

C19_EndTimeIsMaxEnd ==
    ( /\ currentSession.present
      /\ currentSession.focusWords # << >>
      /\ \A w \in WordsOf(currentSession) : WellTimed(w) )
        => currentSession.endTime = MaxEnd(currentSession.focusWords)

---------------------------------------------------------------------------
\* onStateChange(target) called in the current state, with the render and the
\* effects it causes
PanelStates == { "preview", "cruising", "focus", "summary" }

StateChangeRequest(target) ==
    Render(St, HandleStateChange(After(St, "stateChange"), target))

\* C20 (as stated): a state-change request moves the panel to the requested
\* state and leaves isWatching, currentWordIndex, nextWordTimestamp and the
\* polling interval as they were, and no command goes to the widget.
C20_RequestHasNoSideEffect ==
    \A target \in PanelStates :
        LET r == StateChangeRequest(target)
        IN /\ r.learningPanelState = target
           /\ r.isWatching = isWatching
           /\ r.currentWordIndex = currentWordIndex
           /\ r.nextWordTimestamp = nextWordTimestamp
           /\ r.intervalRef = intervalRef
           /\ r.sent = {}

\* C20 (amended): a state-change request moves the panel to the requested
\* state, and the auto-start / auto-stop effect follows it.  A request for
\* preview or summary leaves the scheduler stopped: isWatching false,
\* currentWordIndex 0, nextWordTimestamp null, no polling interval, no command
\* sent.  A request for cruising made in another state while not watching, with
\* a session that has an eligible word and a ready player, starts watching at
\* index 0 and sends seekTo and playVideo.  Any other request leaves
\* isWatching, currentWordIndex and nextWordTimestamp as they were and sends
\* no command.
C20_RequestThenAutoEffect ==
    \A target \in PanelStates :
        LET r == StateChangeRequest(target)
        IN /\ r.learningPanelState = target
           /\ IF target \in { "preview", "summary" }
              THEN /\ ~r.isWatching
                   /\ r.currentWordIndex = 0
                   /\ r.nextWordTimestamp = Null
                   /\ ~r.intervalRef
                   /\ r.sent = {}
              ELSE IF /\ target = "cruising"
                      /\ learningPanelState # "cruising"
                      /\ ~isWatching
                      /\ ~StartFails(St)
              THEN /\ r.isWatching
                   /\ r.currentWordIndex = 0
                   /\ r.sent = { "seekTo", "playVideo" }
              ELSE /\ r.isWatching = isWatching
                   /\ r.currentWordIndex = currentWordIndex
                   /\ r.nextWordTimestamp = nextWordTimestamp
                   /\ r.sent = {}

\* the review button of the summary asked for preview
C20_Witness ==
    /\ lastEvent = "stateChange"
    /\ learningPanelState = "preview"
    /\ currentSession.present
    /\ ~isWatching
    /\ currentWordIndex = 0
    /\ nextWordTimestamp = Null
    /\ sent = {}

---------------------------------------------------------------------------
\* the three guards of the interval callback, for the answers of the widget
TickIgnored(currentTime, playerState) ==
    \/ ~IsPlayerReadyCheck(St)
    \/ playerState # PLAYING
    \/ Abs(currentTime - lastCheckedTime) < MIN_CHECK_DELTA

\* C21: a polling tick that finds the player failing the readiness check, the
\* widget not playing, or a video time less than 0.5 s from lastCheckedTime
\* changes none of isWatching, currentWordIndex, nextWordTimestamp,
\* lastCheckedTime, the panel state and the host's current word, sends no
\* pause and emits no event; so a tick that updates lastCheckedTime has passed
\* all three guards.
C21_IgnoredTickChangesNothing ==
    [][ \A t \in VideoTimes, ps \in { PLAYING, NOT_PLAYING } :
          (TickIgnored(t, ps) /\ TickAt(t, ps))
              => /\ UNCHANGED << isWatching, currentWordIndex, nextWordTimestamp,
                                 lastCheckedTime, learningPanelState, currentWord,
                                 emitted >>
                 /\ sent' = {} ]_vars

\* a tick that found the widget not playing: nothing was checked yet
C21_Witness ==
    /\ lastEvent = "tick"
    /\ isWatching
    /\ IsPlayerReadyCheck(St)
    /\ nextWordTimestamp # Null
    /\ lastCheckedTime = 0
    /\ learningPanelState = "cruising"
    /\ sent = {}

\* C22: a polling interval is registered only while the scheduler is watching
\* with a trigger time set; there is none when it is idle, and none between a
\* trigger and the continueToNextWord() that follows it.
C22_PollingOnlyWhileArmed ==
    (liveIntervals > 0 \/ intervalRef) => (isWatching /\ nextWordTimestamp # Null)

\* a trigger has just cleared the trigger time of a watching scheduler
C22_Witness ==
    /\ lastEvent = "wordEncountered"
    /\ isWatching
    /\ nextWordTimestamp = Null
    /\ liveIntervals = 0
    /\ ~intervalRef

\* C23: a tick that triggers passes the word at currentWordIndex of the
\* eligible list to onWordEncountered and asks for the panel state focus;
\* after it the panel is focus, the host's current word is that word,
\* nextWordTimestamp is null and currentWordIndex is as before.
C23_TriggerEmitsCurrentWord ==
    [][ (lastEvent' = "wordEncountered" /\ Tick)
          => /\ currentWordIndex < Len(Eligible)
             /\ emitted' = Append(emitted, [ word |-> Eligible[currentWordIndex + 1],
                                             index |-> currentWordIndex ])
             /\ learningPanelState' = "focus"
             /\ currentWord' = Eligible[currentWordIndex + 1]
             /\ nextWordTimestamp' = Null
             /\ currentWordIndex' = currentWordIndex ]_vars

\* the second word of a session has triggered
C23_Witness ==
    /\ lastEvent = "wordEncountered"
    /\ learningPanelState = "focus"
    /\ currentWordIndex = 1
    /\ Len(Eligible) > 1
    /\ currentWord = Eligible[2]
    /\ nextWordTimestamp = Null

\* C24: pauseVideo goes to the widget only in a step whose last
\* getPlayerState() before the command answered 1 (playing): the second read
\* of a triggering tick, the read of stopCurrentPlayback, the read of the
\* auto-stop timer of seekToTimestamp; a step in which that read answered
\* another state sends no pause.
C24_PauseOnlyAfterPlayingRead ==
    [][ ("pauseVideo" \in sent' /\ ~WidgetBreaks)
          => /\ \/ \E t \in VideoTimes, ps \in { PLAYING, NOT_PLAYING } :
                      TickRead(t, ps, PLAYING)
                \/ \E item \in ClickedItems : ClickWordAt(item, PLAYING)
                \/ PlaybackTimerFiresAt(PLAYING)
             /\ ~ \E t \in VideoTimes, ps \in { PLAYING, NOT_PLAYING } :
                      TickRead(t, ps, NOT_PLAYING)
             /\ ~ \E item \in ClickedItems : ClickWordAt(item, NOT_PLAYING)
             /\ ~ PlaybackTimerFiresAt(NOT_PLAYING) ]_vars

\* the auto-stop timer found the widget playing and paused it
C24_Witness ==
    /\ lastEvent = "timer"
    /\ sent = { "pauseVideo" }
    /\ ~playbackTimer

\* C25: a watching scheduler with a trigger time set, whose widget keeps
\* playing forward and whose interval keeps firing, eventually passes a word
\* to onWordEncountered, however far the video time is past the trigger time
\* and whatever lastCheckedTime holds.
C25_TriggerNotMissed ==
    (isWatching /\ nextWordTimestamp # Null /\ videoTime <= LastFreeTime)
        ~> (lastEvent = "wordEncountered")

\* a word triggered more than 5.0 s after its trigger time
C25_Witness ==
    /\ lastEvent = "wordEncountered"
    /\ videoTime = lastCheckedTime
    /\ videoTime > currentWord.end + 50

\* C26: while the scheduler watches with a trigger time set, currentWordIndex
\* is an index of the eligible sorted list of the current session and the
\* trigger time is the end time of the word at that index, also after the host
\* has replaced the session while watching.
C26_TriggerMatchesCurrentWord ==
    (isWatching /\ nextWordTimestamp # Null) =>
        /\ currentWordIndex < Len(Eligible)
        /\ nextWordTimestamp = Eligible[currentWordIndex + 1].end

\* C27: once no replaceWord request is in flight, no word whose request was in
\* flight together with another one is among the focus words of the current
\* session, whatever the order in which the requests resolved.
C27_MasteryNotLost ==
    (pendingReplace = << >>) =>
        \A i \in 1..Len(currentSession.focusWords) :
            currentSession.focusWords[i].word \notin overlapped

\* C28 (first half): with the panel cruising, a session with an eligible word
\* and a player that passes the readiness check, the scheduler is watching.
C28_AutoStart ==
    (/\ learningPanelState = "cruising"
     /\ currentSession.present
     /\ Eligible # << >>
     /\ IsPlayerReadyCheck(St)) => isWatching

\* C28 (second half): with the panel in preview or summary the scheduler is
\* idle, at index 0 and without a trigger time.
C28_IdleOutsideWatching ==
    learningPanelState \in { "preview", "summary" } =>
        /\ ~isWatching
        /\ currentWordIndex = 0
        /\ nextWordTimestamp = Null

\* C28: every step leaves the scheduler watching when the panel is cruising
\* with an eligible word and a ready player, idle when the panel is in preview
\* or summary, and a step that starts watching arms index 0 with the end time
\* of the first eligible word.
C28_AutoStartArmsAndStops ==
    [][ /\ C28_AutoStart'
        /\ C28_IdleOutsideWatching'
        /\ (~isWatching /\ isWatching') =>
               /\ currentWordIndex' = 0
               /\ nextWordTimestamp' = Eligible'[1].end ]_vars

\* C29: while the panel is in focus the scheduler has no trigger time and no
\* polling interval is registered.
C29_FocusHasNoTrigger ==
    learningPanelState = "focus" =>
        /\ nextWordTimestamp = Null
        /\ liveIntervals = 0
        /\ ~intervalRef

\* C30: whenever isAuthenticated is false, user, accessToken and refreshToken
\* are null and local storage holds neither auth_user nor auth_tokens, also
\* when a request started before a logout resolves after it.
C30_LoggedOutHoldsNothing ==
    ~auth.isAuthenticated =>
        /\ auth.user = "null"
        /\ auth.accessToken = "null"
        /\ auth.refreshToken = "null"
        /\ localStorage = clearAuthData

====
